---- MODULE Spec2Model ----
(***************************************************************************)
(* A model of aikernel: the Conversation store (conversation.py), the      *)
(* message types and their validators (types/request.py), the response    *)
(* types (types/response.py), the request helpers (unstructured.py,        *)
(* structured.py, tools.py) and the router factory (router.py).            *)
(***************************************************************************)
EXTENDS Integers, Sequences, FiniteSets, TLC

VARIABLES
    \* Conversation (conversation.py)
    user_messages,        \* Conversation._user_messages
    assistant_messages,   \* Conversation._assistant_messages
    tool_messages,        \* Conversation._tool_messages
    system_ref,           \* Conversation._system_message: the object referred to
    held,                 \* the System message objects, by reference: their fields
    frames,               \* the open session() scopes, innermost first
    exc,                  \* the exception in flight in the enclosed work
    unwound,              \* history: the session() scope the exception last left
    \* Conversation.load called on a text (conversation.py)
    load_dump,            \* the argument dump=
    load_result,          \* what load returned or raised
    \* One call of a request helper (unstructured.py, structured.py, tools.py)
    helper,               \* the helper called
    request,              \* its arguments: messages, tools, tool_choice
    backend,              \* what the completion call will do: raise or answer
    pc,                   \* where the helper is
    rendered_messages,    \* local rendered_messages
    response,             \* local response
    inspected,            \* history: the fields of response read so far
    chosen_tool,          \* local chosen_tool, as its index in tools (0: unset)
    outcome,              \* what the helper returned or raised
    sent,                 \* history: the completion call the helper made
    \* get_router (router.py)
    router_cache,         \* the cache of functools.cache: models -> router
    constructed,          \* the number of LLMRouter instances constructed
    returned,             \* what the last call of get_router returned
    called,               \* history: the tuple the last call was made with
    \* The render methods of one Tool message (types/request.py)
    tool_message,         \* self
    render_outcome,       \* what render() returned or raised
    call_and_response,    \* what render_call_and_response() returned or raised
    \* The two forms of one call, on the same arguments and backend
    callee,               \* what is called: LLMRouter.complete or a helper
    given,                \* the keyword arguments given
    served,               \* what the completion call will do: raise or answer
    blocking,             \* the blocking form: the call it sent, its outcome
    suspending,           \* the suspending form: the call it sent, its outcome
    \* One structured response (types/response.py)
    making,               \* how it is made: by its constructor or by a helper
    structured,           \* what making it returned or raised
    accesses,             \* the number of reads of structured_response so far
    accessed,             \* what the last read returned or raised
    \* One construction of a Tool (types/request.py)
    given_name,           \* the argument name=, as its characters
    tool_outcome,         \* what the constructor returned or raised
    \* get_router called from several threads (router.py)
    callers               \* per thread: where it is, its argument, its router

conv_vars == <<user_messages, assistant_messages, tool_messages, system_ref, held,
               frames, exc, unwound>>

load_vars == <<load_dump, load_result>>

helper_vars == <<helper, request, backend, pc, rendered_messages, response, inspected,
                 chosen_tool, outcome, sent>>

router_vars == <<router_cache, constructed, returned, called>>

render_vars == <<tool_message, render_outcome, call_and_response>>

forms_vars == <<callee, given, served, blocking, suspending>>

structured_vars == <<making, structured, accesses, accessed>>

tool_vars == <<given_name, tool_outcome>>

caller_vars == <<callers>>

vars == <<conv_vars, load_vars, helper_vars, router_vars, render_vars, forms_vars,
          structured_vars, tool_vars, caller_vars>>

(***************************************************************************)
(* Bounds                                                                  *)
(***************************************************************************)
MaxMsgs == 3

MaxDepth == 1

MaxTools == 2

MaxCalls == 2

MaxRouters == 2

MaxScopes == 2

MaxParts == 2

MaxAccesses == 2

MaxName == 3

MaxCallers == 2

(***************************************************************************)
(* Strings that may hold JSON.  A string is an atom JSON-encoded `enc`     *)
(* times: enc = 0 is the atom itself, enc = 1 is the JSON string literal   *)
(* whose value is the atom, and so on.  An atom of ObjectAtoms is the text *)
(* of a JSON object; any other atom ("sunny", "hello") is no JSON text.    *)
(***************************************************************************)
ObjectAtoms == {"{\"location\": \"Tokyo\"}"}

Str(n, a) == [enc |-> n, atom |-> a]

\* json.loads on a string: a JSON string literal decodes to the string it
\* encodes, the text of an object to a dict, anything else is a decode error.
json_loads(s) ==
    IF s.enc > 0 THEN [ok |-> TRUE, type |-> "str", value |-> Str(s.enc - 1, s.atom)]
    ELSE IF s.atom \in ObjectAtoms THEN [ok |-> TRUE, type |-> "dict", value |-> s]
    ELSE [ok |-> FALSE, type |-> "JSONDecodeError", value |-> s]

\* pydantic Json[str]: the input is decoded as JSON and the value must be a str.
JsonStr(s) ==
    LET r == json_loads(s)
    IN  IF r.ok /\ r.type = "str" THEN [ok |-> TRUE, value |-> r.value]
        ELSE [ok |-> FALSE, value |-> s]

\* The sequences of at most n elements of S.
SeqsUpTo(S, n) == UNION {[1..k -> S] : k \in 0..n}

(***************************************************************************)
(* Messages (types/request.py)                                             *)
(***************************************************************************)
None == [role |-> "none"]

LLMMessageContentType ==
    {"text", "image/png", "image/jpeg", "image/webp", "audio/wav", "audio/mp3",
     "application/pdf"}

TextPart == [content |-> "hello", content_type |-> "text"]

PngPart == [content |-> "iVBORw0KGgo", content_type |-> "image/png"]

Times == {1, 2}

LLMSystemMessage(parts, created_at) ==
    [role |-> "system", parts |-> parts, created_at |-> created_at]

LLMUserMessage(parts, created_at) ==
    [role |-> "user", parts |-> parts, created_at |-> created_at]

\* LLMAssistantMessage.no_media_parts
no_media_parts(parts) == \A i \in 1..Len(parts) : parts[i].content_type = "text"

LLMAssistantMessage(parts, created_at) ==
    [role |-> "assistant", parts |-> parts, created_at |-> created_at]

\* LLMToolMessage.no_parts
no_parts(parts) == Len(parts) = 0

\* The fields hold the values pydantic stored: response and
\* function_call.arguments are the decoded Json[str] values.
LLMToolMessage(tool_call_id, name, resp, function_call, created_at) ==
    [role |-> "tool", parts |-> <<>>, created_at |-> created_at,
     tool_call_id |-> tool_call_id, name |-> name, response |-> resp,
     function_call |-> function_call]

LLMToolMessageFunctionCall(name, arguments) == [name |-> name, arguments |-> arguments]

\* The messages the callers of the model construct.  A System message is an
\* object the Conversation refers to and with_temporary_system_message changes
\* in place: the caller's System messages are told apart by a reference, their
\* place in SystemMessages.
SystemMessages == <<LLMSystemMessage(<<TextPart>>, 1), LLMSystemMessage(<<>>, 2)>>

SystemRefs == DOMAIN SystemMessages

NoRef == 0

UserMessages == {LLMUserMessage(<<TextPart, PngPart>>, t) : t \in Times}

AssistantPartInputs == {<<TextPart>>, <<PngPart>>}

\* What the caller passes as response= : JSON string literals and, refused at
\* construction, a text that is no JSON and the text of a JSON object.
ResponseInputs ==
    {Str(1, "sunny"), Str(2, "sunny"), Str(0, "sunny"), Str(0, "{\"location\": \"Tokyo\"}")}

ArgumentsInput == Str(1, "{\"location\": \"Tokyo\"}")

(***************************************************************************)
(* Conversation (conversation.py)                                          *)
(***************************************************************************)
Conversation(s, u, a, t) == [system |-> s, user |-> u, assistant |-> a, tool |-> t]

\* self._system_message, dereferenced
system_message == IF system_ref = NoRef THEN None ELSE held[system_ref]

Self == Conversation(system_message, user_messages, assistant_messages, tool_messages)

NumMessages == Len(user_messages) + Len(assistant_messages) + Len(tool_messages)

\* sorted(..., key=created_at) is stable: a message goes after every message
\* already placed whose created_at is not greater.
RECURSIVE InsertByCreatedAt(_, _)
InsertByCreatedAt(m, s) ==
    IF s = <<>> THEN <<m>>
    ELSE IF m.created_at < Head(s).created_at THEN <<m>> \o s
    ELSE <<Head(s)>> \o InsertByCreatedAt(m, Tail(s))

\* A faulty sorted: the messages stay in the order they were given.
SortedMutantUnsorted(s) == s

RECURSIVE sorted(_)
sorted(s) ==
    IF s = <<>> THEN <<>>
    ELSE InsertByCreatedAt(s[Len(s)], sorted(SubSeq(s, 1, Len(s) - 1)))

\* Conversation.render
render(c) ==
    (IF c.system # None THEN <<c.system>> ELSE <<>>)
        \o sorted(c.user \o c.assistant \o c.tool)

(***************************************************************************)
(* dump() and load() (conversation.py).  A JSON text is modelled by the    *)
(* value it decodes to: json.dumps and json.loads are inverse on the       *)
(* envelope, and so are model_dump_json and the JSON parser inside         *)
(* model_validate_json on a message's fields.  What is not inverse, the    *)
(* Json[str] fields, goes through JsonStr.                                 *)
(***************************************************************************)
\* datetime <-> ISO 8601 text
isoformat(t) == [iso |-> t]

fromisoformat(d) == d.iso

\* BaseModel.model_dump_json.  role is a computed_field of the System, User
\* and Assistant messages and is dumped; it is a plain property of the Tool
\* message and is not.  A Json[str] field is dumped as the decoded value.
model_dump_json(m) ==
    IF m.role = "tool"
    THEN [json |-> TRUE, parts |-> m.parts, created_at |-> isoformat(m.created_at),
          tool_call_id |-> m.tool_call_id, name |-> m.name, response |-> m.response,
          function_call |-> m.function_call]
    ELSE [json |-> TRUE, parts |-> m.parts, created_at |-> isoformat(m.created_at),
          role |-> m.role]

JsonNull == [null |-> TRUE]

\* Conversation.dump
dump(c) ==
    [kind |-> "object",
     members |-> [k \in {"system", "user", "assistant", "tool"} |->
        CASE k = "system" -> (IF c.system # None THEN model_dump_json(c.system) ELSE JsonNull)
          [] k = "user" -> [i \in 1..Len(c.user) |-> model_dump_json(c.user[i])]
          [] k = "assistant" -> [i \in 1..Len(c.assistant) |-> model_dump_json(c.assistant[i])]
          [] k = "tool" -> [i \in 1..Len(c.tool) |-> model_dump_json(c.tool[i])]]]

Ok(v) == [ok |-> TRUE, value |-> v, error |-> "none"]

Raise(e) == [ok |-> FALSE, value |-> None, error |-> e]

InvalidDump == "AIError: Invalid conversation dump"

\* The fields every message variant validates: parts (a list of parts whose
\* content_type is a member of the enum) and created_at.
PartsValid(d) ==
    /\ "parts" \in DOMAIN d
    /\ \A i \in 1..Len(d.parts) : d.parts[i].content_type \in LLMMessageContentType

\* <Message>.model_validate_json(text) for the variant `role`.  Unknown keys
\* (the dumped role) are ignored.  A failed field is a ValidationError; the
\* AIError a model validator raises is no ValueError and leaves pydantic as it is.
model_validate_json(role, d) ==
    IF ~d.json THEN Raise("ValidationError")
    ELSE IF role = "tool"
    THEN IF ~({"tool_call_id", "name", "response", "function_call"} \subseteq DOMAIN d)
              \/ ~JsonStr(d.response).ok
              \/ ~JsonStr(d.function_call.arguments).ok
              \/ ("parts" \in DOMAIN d /\ ~PartsValid(d))
         THEN Raise("ValidationError")
         ELSE IF "parts" \in DOMAIN d /\ ~no_parts(d.parts)
         THEN Raise("AIError: Tool messages can not have parts")
         ELSE Ok(LLMToolMessage(d.tool_call_id, d.name, JsonStr(d.response).value,
                    LLMToolMessageFunctionCall(d.function_call.name,
                        JsonStr(d.function_call.arguments).value),
                    fromisoformat(d.created_at)))
    ELSE IF ~PartsValid(d) THEN Raise("ValidationError")
    ELSE IF role = "assistant" /\ ~no_media_parts(d.parts)
    THEN Raise("AIError: Assistant messages can not have media parts")
    ELSE Ok([role |-> role, parts |-> d.parts, created_at |-> fromisoformat(d.created_at)])

\* One of the three for loops of load: the entries are validated and added in
\* order, and the first failure ends the loop.
RECURSIVE validate_each(_, _)
validate_each(role, ds) ==
    IF Len(ds) = 0 THEN Ok(<<>>)
    ELSE LET first == model_validate_json(role, ds[1])
         IN  IF ~first.ok THEN first
             ELSE LET rest == validate_each(role, [i \in 1..(Len(ds) - 1) |-> ds[i + 1]])
                  IN  IF ~rest.ok THEN rest ELSE Ok(<<first.value>> \o rest.value)

\* The body of load's second try block: a missing key is a KeyError.
load_members(m) ==
    IF "system" \notin DOMAIN m THEN Raise("KeyError")
    ELSE LET s == IF m["system"] = JsonNull THEN Ok(None)
                  ELSE model_validate_json("system", m["system"])
         IN  IF ~s.ok THEN s
             ELSE IF "user" \notin DOMAIN m THEN Raise("KeyError")
             ELSE LET u == validate_each("user", m["user"])
                  IN  IF ~u.ok THEN u
                      ELSE IF "assistant" \notin DOMAIN m THEN Raise("KeyError")
                      ELSE LET a == validate_each("assistant", m["assistant"])
                           IN  IF ~a.ok THEN a
                               ELSE IF "tool" \notin DOMAIN m THEN Raise("KeyError")
                               ELSE LET t == validate_each("tool", m["tool"])
                                    IN  IF ~t.ok THEN t
                                        ELSE Ok(Conversation(s.value, u.value, a.value, t.value))

\* The except clauses of load: JSONDecodeError and ValidationError become the
\* AIError "Invalid conversation dump"; nothing else is caught.
load_except(e) == IF e \in {"JSONDecodeError", "ValidationError"} THEN InvalidDump ELSE e

\* Conversation.load.  Subscripting a decoded value that is no object with
\* "system" is a TypeError.
load(d) ==
    IF d.kind = "text" THEN Raise(load_except("JSONDecodeError"))
    ELSE IF d.kind # "object" THEN Raise("TypeError")
    ELSE LET r == load_members(d.members)
         IN  IF r.ok THEN r ELSE Raise(load_except(r.error))

NoFrame == [kind |-> "none"]

\* except Exception: catches every Exception; KeyboardInterrupt is a
\* BaseException that is no Exception.
IsException(e) == e # "KeyboardInterrupt"

BodyErrors == {"ValueError", "KeyboardInterrupt"}

\* Conversation.add_user_message
add_user_message(message) ==
    /\ exc = "none"
    /\ NumMessages < MaxMsgs
    /\ user_messages' = Append(user_messages, message)
    /\ UNCHANGED <<assistant_messages, tool_messages, system_ref, held, frames, exc, unwound, forms_vars, structured_vars, tool_vars, caller_vars, load_vars, helper_vars, router_vars, render_vars>>

\* Conversation.add_assistant_message; the message is constructed first, and
\* its validator refuses media parts.
add_assistant_message(parts, created_at) ==
    /\ exc = "none"
    /\ NumMessages < MaxMsgs
    /\ no_media_parts(parts)
    /\ assistant_messages' = Append(assistant_messages, LLMAssistantMessage(parts, created_at))
    /\ UNCHANGED <<user_messages, tool_messages, system_ref, held, frames, exc, unwound, forms_vars, structured_vars, tool_vars, caller_vars, load_vars, helper_vars, router_vars, render_vars>>

\* Conversation.add_tool_message; the message is constructed first, and
\* Json[str] refuses a response that is not a JSON string literal.
add_tool_message(response_in, created_at) ==
    /\ exc = "none"
    /\ NumMessages < MaxMsgs
    /\ JsonStr(response_in).ok
    /\ JsonStr(ArgumentsInput).ok
    /\ tool_messages' = Append(tool_messages,
            LLMToolMessage("call_1", "get_weather", JsonStr(response_in).value,
                LLMToolMessageFunctionCall("get_weather", JsonStr(ArgumentsInput).value),
                created_at))
    /\ UNCHANGED <<user_messages, assistant_messages, system_ref, held, frames, exc, unwound, forms_vars, structured_vars, tool_vars, caller_vars, load_vars, helper_vars, router_vars, render_vars>>

\* Conversation.set_system_message
set_system_message(message) ==
    /\ exc = "none"
    /\ system_ref' = message
    /\ unwound' = NoFrame
    /\ UNCHANGED <<user_messages, assistant_messages, tool_messages, held, frames, exc, forms_vars, structured_vars, tool_vars, caller_vars, load_vars, helper_vars, router_vars, render_vars>>

\* Conversation.session, entry: the three lengths are snapshotted.  entry_* is
\* history: the collections as they were at entry; raised and added are
\* filled in when an exception leaves the scope (what the enclosed work raised
\* and how many messages it had added to each collection).
session_enter ==
    /\ exc = "none"
    /\ Len(frames) < MaxDepth
    /\ frames' = <<[kind |-> "session",
                    num_user_messages |-> Len(user_messages),
                    num_assistant_messages |-> Len(assistant_messages),
                    num_tool_messages |-> Len(tool_messages),
                    entry_user |-> user_messages,
                    entry_assistant |-> assistant_messages,
                    entry_tool |-> tool_messages,
                    raised |-> "none",
                    added |-> <<0, 0, 0>>]>> \o frames
    /\ UNCHANGED <<user_messages, assistant_messages, tool_messages, system_ref, held, exc, unwound, forms_vars, structured_vars, tool_vars, caller_vars, load_vars, helper_vars, router_vars, render_vars>>

\* Conversation.session, the enclosed work ends normally.
session_exit ==
    /\ exc = "none"
    /\ frames # <<>>
    /\ Head(frames).kind = "session"
    /\ frames' = Tail(frames)
    /\ UNCHANGED <<user_messages, assistant_messages, tool_messages, system_ref, held, exc, unwound, forms_vars, structured_vars, tool_vars, caller_vars, load_vars, helper_vars, router_vars, render_vars>>

\* The enclosed work raises.
body_raise(e) ==
    /\ exc = "none"
    /\ frames # <<>>
    /\ exc' = e
    /\ unwound' = NoFrame
    /\ UNCHANGED <<user_messages, assistant_messages, tool_messages, system_ref, held, frames, forms_vars, structured_vars, tool_vars, caller_vars, load_vars, helper_vars, router_vars, render_vars>>

\* The except Exception: branch of session().
\* A faulty rollback, which forgets the tool messages.
RollbackMutantKeepTool(f, c) ==
    [c EXCEPT !.user = SubSeq(c.user, 1, f.num_user_messages),
              !.assistant = SubSeq(c.assistant, 1, f.num_assistant_messages)]
Rollback(f, c) ==
    [c EXCEPT !.user = SubSeq(c.user, 1, f.num_user_messages),
              !.assistant = SubSeq(c.assistant, 1, f.num_assistant_messages),
              !.tool = SubSeq(c.tool, 1, f.num_tool_messages)]

\* Conversation.session, the enclosed work raised: an Exception is caught, the
\* collections are truncated and the exception is raised again; any other
\* BaseException passes through the scope untouched.
session_except ==
    /\ exc # "none"
    /\ frames # <<>>
    /\ Head(frames).kind = "session"
    /\ LET f == Head(frames)
           c == IF IsException(exc) THEN Rollback(f, Self) ELSE Self
       IN  /\ user_messages' = c.user
           /\ assistant_messages' = c.assistant
           /\ tool_messages' = c.tool
           /\ unwound' = [f EXCEPT !.raised = exc,
                                    !.added = <<Len(user_messages) - f.num_user_messages,
                                                Len(assistant_messages) - f.num_assistant_messages,
                                                Len(tool_messages) - f.num_tool_messages>>]
    /\ frames' = Tail(frames)
    /\ exc' = exc
    /\ UNCHANGED <<system_ref, held, forms_vars, structured_vars, tool_vars, caller_vars, load_vars, helper_vars, router_vars, render_vars>>

\* The exception has left every scope and reaches the caller, who handles it.
caller_handles ==
    /\ exc # "none"
    /\ frames = <<>>
    /\ exc' = "none"
    /\ unwound' = NoFrame
    /\ UNCHANGED <<user_messages, assistant_messages, tool_messages, system_ref, held, frames, forms_vars, structured_vars, tool_vars, caller_vars, load_vars, helper_vars, router_vars, render_vars>>

\* The parts with_temporary_system_message is called with.
TemporaryParts ==
    {[content |-> "Be brief", content_type |-> "text"],
     [content |-> "Answer in French", content_type |-> "text"]}

NoSystemMessage == "AIError: No system message to modify"

\* list.pop(): the last element is removed; an empty list raises IndexError.
pop(parts) ==
    IF Len(parts) = 0 THEN Raise("IndexError")
    ELSE Ok(SubSeq(parts, 1, Len(parts) - 1))

\* Conversation.with_temporary_system_message up to its yield: without a
\* System message it raises and no scope is open; else the part is appended to
\* the parts of the System message.  entry_ref and entry_len are history:
\* the message appended to and how many parts it had before; raised is filled
\* in when the scope is left.
temp_enter(message_part) ==
    /\ exc = "none"
    /\ IF system_ref = NoRef
       THEN /\ exc' = NoSystemMessage
            /\ UNCHANGED <<held, frames>>
       ELSE /\ Len(frames) < MaxScopes
            /\ Len(system_message.parts) < MaxParts
            /\ held' = [held EXCEPT ![system_ref].parts = Append(@, message_part)]
            /\ frames' = <<[kind |-> "temporary",
                            message_part |-> message_part,
                            entry_ref |-> system_ref,
                            entry_len |-> Len(system_message.parts),
                            raised |-> "none"]>> \o frames
            /\ exc' = exc
    /\ unwound' = NoFrame
    /\ UNCHANGED <<user_messages, assistant_messages, tool_messages, system_ref, forms_vars, structured_vars, tool_vars, caller_vars, load_vars, helper_vars, router_vars, render_vars>>

\* Conversation.with_temporary_system_message, the enclosed work ends
\* normally: the generator resumes after the yield and pops the last part of
\* the parts of what is the System message now; an IndexError of pop leaves
\* the scope as the exception in flight.
temp_exit ==
    /\ exc = "none"
    /\ frames # <<>>
    /\ Head(frames).kind = "temporary"
    /\ LET popped == pop(system_message.parts)
       IN  IF popped.ok
           THEN /\ held' = [held EXCEPT ![system_ref].parts = popped.value]
                /\ exc' = exc
           ELSE /\ held' = held
                /\ exc' = popped.error
    /\ frames' = Tail(frames)
    /\ unwound' = Head(frames)
    /\ UNCHANGED <<user_messages, assistant_messages, tool_messages, system_ref, forms_vars, structured_vars, tool_vars, caller_vars, load_vars, helper_vars, router_vars, render_vars>>

\* Conversation.with_temporary_system_message, the enclosed work raised: the
\* exception is thrown into the generator at the yield, which has no handler,
\* so the line after the yield does not run and the exception goes on.
temp_except ==
    /\ exc # "none"
    /\ frames # <<>>
    /\ Head(frames).kind = "temporary"
    /\ frames' = Tail(frames)
    /\ unwound' = [Head(frames) EXCEPT !.raised = exc]
    /\ UNCHANGED <<user_messages, assistant_messages, tool_messages, system_ref, held, exc, forms_vars, structured_vars, tool_vars, caller_vars, load_vars, helper_vars, router_vars, render_vars>>

\* The work enclosed in an open scope catches the exception in flight (a
\* try/except around an inner scope) and goes on.
body_except ==
    /\ exc # "none"
    /\ frames # <<>>
    /\ exc' = "none"
    /\ unwound' = NoFrame
    /\ UNCHANGED <<user_messages, assistant_messages, tool_messages, system_ref, held, frames, forms_vars, structured_vars, tool_vars, caller_vars, load_vars, helper_vars, router_vars, render_vars>>

(***************************************************************************)
(* Rendering (types/request.py)                                            *)
(***************************************************************************)
\* _LLMMessage.render_parts
render_parts(parts) ==
    [i \in 1..Len(parts) |->
        IF parts[i].content_type = "text"
        THEN [type |-> "text", text |-> parts[i].content]
        ELSE [type |-> "image_url",
              image_url |-> <<"data:", parts[i].content_type, ";base64,", parts[i].content>>]]

\* LLMSystemMessage.render, LLMUserMessage.render, LLMAssistantMessage.render
message_render(m) == [role |-> m.role, content |-> render_parts(m.parts)]

\* LLMToolMessage.render_call_and_response
\* A faulty rendering, whose response message bears the name as tool_call_id.
RenderCallAndResponseMutantNameAsId(m) ==
    <<[role |-> "assistant", tool_call_id |-> m.tool_call_id, name |-> m.name,
       content |-> None,
       tool_calls |-> <<[id |-> m.tool_call_id, type |-> "function",
                         function |-> [name |-> m.name,
                                       arguments |-> m.function_call.arguments]]>>],
      [role |-> "tool", tool_call_id |-> m.name, name |-> m.name,
       content |-> m.response]>>
render_call_and_response(m) ==
    <<[role |-> "assistant", tool_call_id |-> m.tool_call_id, name |-> m.name,
       content |-> None,
       tool_calls |-> <<[id |-> m.tool_call_id, type |-> "function",
                         function |-> [name |-> m.name,
                                       arguments |-> m.function_call.arguments]]>>],
      [role |-> "tool", tool_call_id |-> m.tool_call_id, name |-> m.name,
       content |-> m.response]>>

\* The loop every helper starts with: a Tool message becomes its two wire
\* messages, any other message its one.
RECURSIVE render_messages(_)
render_messages(messages) ==
    IF Len(messages) = 0 THEN <<>>
    ELSE LET m == messages[Len(messages)]
             before == render_messages(SubSeq(messages, 1, Len(messages) - 1))
         IN  IF m.role = "tool" THEN before \o render_call_and_response(m)
             ELSE Append(before, message_render(m))

Return(r) == [kind |-> "return", response |-> r, error |-> None]

RaiseError(type, message) ==
    [kind |-> "raise", response |-> None, error |-> [type |-> type, message |-> message]]

Running == [kind |-> "running", response |-> None, error |-> None]

IllegalRender ==
    "Tool messages can not be rendered directly, please use render_call_and_response instead"

\* LLMToolMessage.render
LLMToolMessage_render(m) == RaiseError("AIError", IllegalRender)

\* The Tool messages the render methods are called on: the decoded response
\* and arguments are any strings, and the function call may bear another name
\* than the message.
ToolMessageInputs ==
    {LLMToolMessage(id, name, resp,
                    LLMToolMessageFunctionCall(function_name, arguments), created_at) :
        id \in {"call_1", "call_2"},
        name \in {"get_weather", "find_restaurants"},
        resp \in {Str(0, "sunny"), Str(1, "sunny")},
        function_name \in {"get_weather", "find_restaurants"},
        arguments \in {Str(0, "{\"location\": \"Tokyo\"}"), Str(0, "sunny")},
        created_at \in Times}

\* tool_message.render()
call_render ==
    /\ tool_message # None
    /\ render_outcome = Running
    /\ render_outcome' = LLMToolMessage_render(tool_message)
    /\ UNCHANGED <<conv_vars, forms_vars, structured_vars, tool_vars, caller_vars, load_vars, helper_vars, router_vars, tool_message,
                   call_and_response>>

\* tool_message.render_call_and_response()
call_render_call_and_response ==
    /\ tool_message # None
    /\ call_and_response = Running
    /\ call_and_response' = Return(render_call_and_response(tool_message))
    /\ UNCHANGED <<conv_vars, forms_vars, structured_vars, tool_vars, caller_vars, load_vars, helper_vars, router_vars, tool_message,
                   render_outcome>>

RenderIdle ==
    /\ tool_message = None
    /\ render_outcome = Running
    /\ call_and_response = Running

RenderInit ==
    /\ tool_message \in ToolMessageInputs
    /\ render_outcome = Running
    /\ call_and_response = Running

RenderNext ==
    \/ call_render
    \/ call_render_call_and_response

(***************************************************************************)
(* The router factory (router.py)                                          *)
(***************************************************************************)
MODEL_ALIAS_MAPPING ==
    [alias \in {"gemini-2.0-flash", "gemini-2.0-flash-lite", "claude-3.5-sonnet",
                "claude-3.7-sonnet"} |->
        CASE alias = "gemini-2.0-flash" -> "vertex_ai/gemini-2.0-flash"
          [] alias = "gemini-2.0-flash-lite" -> "vertex_ai/gemini-2.0-flash-lite"
          [] alias = "claude-3.5-sonnet" -> "bedrock/anthropic.claude-3-5-sonnet-20240620-v1:0"
          [] alias = "claude-3.7-sonnet" -> "bedrock/anthropic.claude-3-7-sonnet-20250219-v1:0"]

\* model_list = [{"model_name": model, "litellm_params": {...}} for model in models]
model_list_of(models) ==
    [i \in 1..Len(models) |->
        [model_name |-> models[i],
         litellm_params |-> [model |-> MODEL_ALIAS_MAPPING[models[i]]]]]

\* fallbacks = [{model: [other for other in models if other != model]} for model in models];
\* a one-key dict is its key and its value.
\* A faulty table, which keeps the model in its own fallback list.
FallbacksMutantKeepSelf(models) ==
    [i \in 1..Len(models) |->
        [key |-> models[i],
         value |-> SelectSeq(models, LAMBDA other : TRUE)]]
fallbacks_of(models) ==
    [i \in 1..Len(models) |->
        [key |-> models[i],
         value |-> SelectSeq(models, LAMBDA other : other # models[i])]]

\* LLMRouter.__init__: model_list and fallbacks go to Router.__init__ as given.
\* id tells the instances apart.
LLMRouter(id, model_list, fallbacks) ==
    [id |-> id, model_list |-> model_list, fallbacks |-> fallbacks]

\* Router.model_names: the model_name of every entry of model_list, in order.
model_names(router) ==
    [i \in 1..Len(router.model_list) |-> router.model_list[i].model_name]

\* LLMRouter.primary_model
primary_model(router) ==
    IF Len(model_names(router)) = 0 THEN Raise("ValueError")
    ELSE Ok(model_names(router)[1])

\* Before the first call of get_router: no tuple of aliases.
NotYet == <<"none">>

\* get_router under functools.cache: a tuple seen before gives the cached
\* router; any other tuple has its router built, cached and returned.
\* A faulty factory, which hands out a new router for a tuple seen before.
GetRouterMutantRebuild(models) ==
    /\ called' = models
    /\ IF models \in DOMAIN router_cache
       THEN /\ returned' = LLMRouter(constructed + 1, model_list_of(models),
                                     fallbacks_of(models))
            /\ UNCHANGED <<router_cache, constructed>>
       ELSE /\ Cardinality(DOMAIN router_cache) < MaxRouters
            /\ LET router == LLMRouter(constructed + 1, model_list_of(models),
                                       fallbacks_of(models))
               IN  /\ router_cache' = [k \in DOMAIN router_cache \cup {models} |->
                                          IF k = models THEN router ELSE router_cache[k]]
                   /\ returned' = router
            /\ constructed' = constructed + 1
get_router(models) ==
    /\ called' = models
    /\ IF models \in DOMAIN router_cache
       THEN /\ returned' = router_cache[models]
            /\ UNCHANGED <<router_cache, constructed>>
       ELSE /\ Cardinality(DOMAIN router_cache) < MaxRouters
            /\ LET router == LLMRouter(constructed + 1, model_list_of(models),
                                       fallbacks_of(models))
               IN  /\ router_cache' = [k \in DOMAIN router_cache \cup {models} |->
                                          IF k = models THEN router ELSE router_cache[k]]
                   /\ returned' = router
            /\ constructed' = constructed + 1

AliasInputs == {"gemini-2.0-flash", "gemini-2.0-flash-lite", "claude-3.5-sonnet"}

\* Every tuple of these aliases, repeated ones too, as long as a tuple of
\* distinct aliases can be.
ModelTuples == SeqsUpTo(AliasInputs, Cardinality(AliasInputs))

RouterInit ==
    /\ router_cache = [k \in {} |-> None]
    /\ constructed = 0
    /\ returned = None
    /\ called = NotYet

RouterNext ==
    \E models \in ModelTuples :
        /\ get_router(models)
        /\ UNCHANGED <<conv_vars, forms_vars, structured_vars, tool_vars, caller_vars, load_vars, helper_vars, render_vars>>

(***************************************************************************)
(* Responses (types/response.py) and the request helpers                   *)
(***************************************************************************)

\* LLMUsage(input_tokens=usage.prompt_tokens, output_tokens=usage.completion_tokens)
LLMUsage(usage) ==
    [input_tokens |-> usage.prompt_tokens, output_tokens |-> usage.completion_tokens]

\* LLMToolCall(id=, tool_name=, arguments=): id is no field of the model and is
\* dropped; arguments must be a dict.
\* A faulty model, whose arguments field takes any value.
LLMToolCallMutantAnyArguments(tool_name, arguments) ==
    Ok([tool_name |-> tool_name, arguments |-> arguments.value])
LLMToolCall(tool_name, arguments) ==
    IF arguments.type = "dict"
    THEN Ok([tool_name |-> tool_name, arguments |-> arguments.value])
    ELSE Raise("ValidationError")

UnstructuredLLMResponse(text, usage) ==
    [variant |-> "UnstructuredLLMResponse", text |-> text, usage |-> usage]

StructuredLLMResponse(text, structure, usage) ==
    [variant |-> "StructuredLLMResponse", text |-> text, structure |-> structure,
     usage |-> usage]

\* ToolLLMResponse and its validator at_least_one_field
ToolLLMResponse(tool_call, text, usage) ==
    IF tool_call = None /\ text = None
    THEN RaiseError("AIError", "At least one of tool_call or text must be provided")
    ELSE Return([variant |-> "ToolLLMResponse", tool_call |-> tool_call, text |-> text,
                 usage |-> usage])

StrictToolLLMResponse(tool_call, usage) ==
    Return([variant |-> "StrictToolLLMResponse", tool_call |-> tool_call, usage |-> usage])

RouterHelpers ==
    {"llm_unstructured_sync", "llm_unstructured", "llm_structured_sync", "llm_structured"}

StructuredHelpers == {"llm_structured_sync", "llm_structured"}

ToolHelpers == {"llm_tool_call_sync", "llm_tool_call"}

Helpers == RouterHelpers \cup ToolHelpers

\* LLMRouter.complete and acomplete: the completion of the underlying router,
\* then ModelResponse.model_validate, which wants every choice's content a str.
router_complete(b) ==
    IF b.raises # "none" THEN Raise(b.raises)
    ELSE IF \E i \in 1..Len(b.response.choices) : b.response.choices[i].message.content = None
    THEN Raise("ValidationError")
    ELSE Ok(b.response)

\* litellm's completion and acompletion, which tools.py calls directly.
litellm_completion(b) == IF b.raises # "none" THEN Raise(b.raises) ELSE Ok(b.response)

\* The keyword-only parameters of the two forms of LLMRouter.complete and of
\* the six helpers: those without a default, and the defaults of the others.
Signature(required, defaults) == [required |-> required, defaults |-> defaults]

NoDefaults == [p \in {} |-> None]

Parameters(f) ==
    CASE f = "LLMRouter.complete" ->
            Signature({"messages"},
                      [response_format |-> None, tools |-> None, tool_choice |-> None,
                       max_tokens |-> None, temperature |-> "1.0"])
      [] f = "LLMRouter.acomplete" ->
            Signature({"messages"},
                      [response_format |-> None, tools |-> None, tool_choice |-> None,
                       temperature |-> "1.0"])
      [] f \in {"llm_unstructured_sync", "llm_unstructured"} ->
            Signature({"messages", "router"}, NoDefaults)
      [] f \in {"llm_structured_sync", "llm_structured"} ->
            Signature({"messages", "router", "response_model"}, NoDefaults)
      [] f = "llm_tool_call_sync" ->
            Signature({"messages", "model", "tools", "tool_choice"}, NoDefaults)
      [] f = "llm_tool_call" ->
            Signature({"messages", "model", "tools"}, [tool_choice |-> "auto"])

\* A call f(**kwargs): a keyword the function does not have, or a parameter
\* without default that is not given, is a TypeError; else every parameter is
\* bound to what was given or to its default.
bind(f, kwargs) ==
    LET names == Parameters(f).required \cup DOMAIN Parameters(f).defaults
    IN  IF ~(DOMAIN kwargs \subseteq names) \/ ~(Parameters(f).required \subseteq DOMAIN kwargs)
        THEN Raise("TypeError")
        ELSE Ok([p \in names |->
                    IF p \in DOMAIN kwargs THEN kwargs[p] ELSE Parameters(f).defaults[p]])

NothingSent == [via |-> "none"]

\* LLMRouter.complete and acomplete on bound arguments: the alias
\* primary_model is mapped to its model name, the completion of the underlying
\* router is called with it and with every argument, and the raw response is
\* validated.  sent is the call made, result what came of it.
LLMRouter_complete(f, router, args, b) ==
    IF ~primary_model(router).ok
    THEN [sent |-> NothingSent, result |-> primary_model(router)]
    ELSE [sent |-> [via |-> f,
                    router |-> router,
                    kwargs |-> [p \in DOMAIN args \cup {"model"} |->
                                  IF p = "model"
                                  THEN MODEL_ALIAS_MAPPING[primary_model(router).value]
                                  ELSE args[p]]],
          result |-> router_complete(b)]

\* LLMTool.render
tool_render(tool) ==
    [type |-> "function",
     function |-> [name |-> tool.name, description |-> tool.description,
                   parameters |-> "model_json_schema"]]

\* The form of LLMRouter.complete a helper calls, and the litellm function
\* the tool helpers call.
CompletionOf(h) ==
    CASE h = "llm_unstructured_sync" -> "LLMRouter.complete"
      [] h = "llm_structured_sync" -> "LLMRouter.complete"
      [] h = "llm_unstructured" -> "LLMRouter.acomplete"
      [] h = "llm_structured" -> "LLMRouter.acomplete"
      [] h = "llm_tool_call_sync" -> "litellm.completion"
      [] h = "llm_tool_call" -> "litellm.acompletion"

\* The completion call of a helper, on its bound arguments and the messages
\* it rendered: router.complete(messages=) in unstructured.py,
\* router.complete(messages=, response_format=) in structured.py, and
\* completion(messages=, model=, tools=, tool_choice=) of litellm in tools.py.
completion_call(h, args, rendered, b) ==
    IF h \in {"llm_unstructured_sync", "llm_unstructured"}
    THEN LLMRouter_complete(CompletionOf(h), args.router,
            bind(CompletionOf(h), [messages |-> rendered]).value, b)
    ELSE IF h \in {"llm_structured_sync", "llm_structured"}
    THEN LLMRouter_complete(CompletionOf(h), args.router,
            bind(CompletionOf(h), [messages |-> rendered,
                                   response_format |-> args.response_model]).value, b)
    ELSE [sent |-> [via |-> CompletionOf(h),
                    router |-> None,
                    kwargs |-> [messages |-> rendered, model |-> args.model,
                                tools |-> [i \in 1..Len(args.tools) |-> tool_render(args.tools[i])],
                                tool_choice |-> args.tool_choice]],
          result |-> litellm_completion(b)]

\* The except clauses around the completion call.  Only the structured helpers
\* have them.
completion_except(h, e) ==
    IF h \in StructuredHelpers /\ e = "ServiceUnavailableError"
    THEN RaiseError("ModelUnavailableError", "")
    ELSE IF h \in StructuredHelpers /\ e = "RateLimitError"
    THEN RaiseError("RateLimitExceededError", "")
    ELSE RaiseError(e, "")

\* if len(response.choices) == 0: raise ...  The result is the error raised and
\* the fields of the response read to decide it.
\* A faulty check, which reads usage before it looks at the choices.
NoChoicesMutantUsageFirst(h, r) ==
    [inspected |-> {"choices", "usage"},
     outcome |-> IF Len(r.choices) = 0
                 THEN IF h \in ToolHelpers THEN RaiseError("AIError", "No response from LLM")
                      ELSE RaiseError("NoResponseError", "")
                 ELSE Running]
no_choices(h, r) ==
    [inspected |-> {"choices"},
     outcome |-> IF Len(r.choices) = 0
                 THEN IF h \in ToolHelpers THEN RaiseError("AIError", "No response from LLM")
                      ELSE RaiseError("NoResponseError", "")
                 ELSE Running]

\* The field tool_calls of a raw message: None, or a list of tool calls.
NoToolCalls == [list |-> FALSE, items |-> <<>>]

ToolCalls(items) == [list |-> TRUE, items |-> items]

\* tool_calls = response.choices[0].message.tool_calls or []
first_tool_calls(r) ==
    IF r.choices[1].message.tool_calls.list THEN r.choices[1].message.tool_calls.items
    ELSE <<>>

\* next(tool for tool in tools if tool.name == tool_calls[0].function.name), as
\* the index of the tool; 0 stands for StopIteration.
\* A faulty choice: the last tool of that name.
ChosenToolMutantLast(tools, tool_calls) ==
    LET matching == {i \in 1..Len(tools) : tools[i].name = tool_calls[1].function.name}
    IN  IF matching = {} THEN 0 ELSE CHOOSE i \in matching : \A j \in matching : j <= i
next_tool(tools, tool_calls) ==
    LET matching == {i \in 1..Len(tools) : tools[i].name = tool_calls[1].function.name}
    IN  IF matching = {} THEN 0 ELSE CHOOSE i \in matching : \A j \in matching : i <= j

\* The branch of llm_tool_call taken when the first choice has no tool call.
\* A faulty branch, which ignores tool_choice.
NoToolCallsMutantNeverRequired(tool_choice, r, usage) ==
    ToolLLMResponse(None, r.choices[1].message.content, usage)
no_tool_calls(tool_choice, r, usage) ==
    IF tool_choice = "required"
    THEN RaiseError("AIError", "No tool call found in response")
    ELSE ToolLLMResponse(None, r.choices[1].message.content, usage)

\* llm_tool_call and llm_tool_call_sync from usage = ... to the end.
tool_call_result(tools, tool_choice, r) ==
    LET usage == LLMUsage(r.usage)
        tool_calls == first_tool_calls(r)
    IN  IF Len(tool_calls) = 0 THEN no_tool_calls(tool_choice, r, usage)
        ELSE IF next_tool(tools, tool_calls) = 0
        THEN RaiseError("AIError", "No tool call found in response: {tool_calls}")
        ELSE LET arguments == json_loads(tool_calls[1].function.arguments)
             IN  IF ~arguments.ok
                 THEN RaiseError("AIError", "Invalid tool call arguments: {arguments}")
                 ELSE LET tool_call == LLMToolCall(tools[next_tool(tools, tool_calls)].name,
                                                   arguments)
                      IN  IF ~tool_call.ok THEN RaiseError("ValidationError", "")
                          ELSE StrictToolLLMResponse(tool_call.value, usage)

\* llm_unstructured(_sync) and llm_structured(_sync) from text = ... to the end.
text_result(h, req, r) ==
    IF h \in StructuredHelpers
    THEN Return(StructuredLLMResponse(r.choices[1].message.content, req.response_model,
                                      LLMUsage(r.usage)))
    ELSE Return(UnstructuredLLMResponse(r.choices[1].message.content, LLMUsage(r.usage)))

\* A helper up to and including its completion call.
helper_complete ==
    /\ pc = "start"
    /\ rendered_messages' = render_messages(request.messages)
    /\ LET call == completion_call(helper, request, render_messages(request.messages),
                                   backend)
       IN  /\ sent' = call.sent
           /\ IF call.result.ok
              THEN /\ response' = call.result.value
                   /\ pc' = "received"
                   /\ outcome' = outcome
              ELSE /\ response' = response
                   /\ pc' = "done"
                   /\ outcome' = completion_except(helper, call.result.error)
    /\ UNCHANGED <<conv_vars, forms_vars, structured_vars, tool_vars, caller_vars, load_vars, router_vars, render_vars, helper, request, backend, inspected,
                   chosen_tool>>

\* The check for a result without choices.
helper_check_choices ==
    /\ pc = "received"
    /\ inspected' = inspected \cup no_choices(helper, response).inspected
    /\ outcome' = no_choices(helper, response).outcome
    /\ pc' = IF no_choices(helper, response).outcome = Running THEN "checked" ELSE "done"
    /\ UNCHANGED <<conv_vars, forms_vars, structured_vars, tool_vars, caller_vars, load_vars, router_vars, render_vars, helper, request, backend,
                   rendered_messages, response, chosen_tool, sent>>

\* The rest of the helper: the typed response is built from the first choice.
helper_normalize ==
    /\ pc = "checked"
    /\ pc' = "done"
    /\ IF helper \in ToolHelpers
       THEN /\ outcome' = tool_call_result(request.tools, request.tool_choice, response)
            /\ inspected' = inspected \cup {"usage", "tool_calls"}
                    \cup (IF Len(first_tool_calls(response)) = 0
                             /\ request.tool_choice # "required"
                          THEN {"content"} ELSE {})
            /\ chosen_tool' = IF Len(first_tool_calls(response)) = 0 THEN 0
                              ELSE next_tool(request.tools, first_tool_calls(response))
       ELSE /\ outcome' = text_result(helper, request, response)
            /\ inspected' = inspected \cup {"content", "usage"}
            /\ chosen_tool' = chosen_tool
    /\ UNCHANGED <<conv_vars, forms_vars, structured_vars, tool_vars, caller_vars, load_vars, router_vars, render_vars, helper, request, backend,
                   rendered_messages, response, sent>>

\* The arguments and backends the helpers are called with.
LLMTool(name, description) == [name |-> name, description |-> description]

ToolInputs ==
    {LLMTool("get_weather", "Get the weather"), LLMTool("get_weather", "Weather, again"),
     LLMTool("find_restaurants", "Find restaurants")}

\* Tool call arguments: the text of a JSON object, a text that is no JSON, and
\* a JSON string literal.
ArgumentTexts == {Str(0, "{\"location\": \"Tokyo\"}"), Str(0, "sunny"), Str(1, "sunny")}

ToolCallInputs ==
    {[id |-> "1", type |-> "function", function |-> [name |-> n, arguments |-> a]] :
        n \in {"get_weather", "find_restaurants"}, a \in ArgumentTexts}

Choice(content, tool_calls) ==
    [finish_reason |-> "stop", message |-> [role |-> "assistant", content |-> content,
                                            tool_calls |-> tool_calls]]

SecondChoice == Choice(Str(0, "bye"), NoToolCalls)

RawUsage == [prompt_tokens |-> 10, completion_tokens |-> 5, total_tokens |-> 15]

ModelResponse(choices) == [raises |-> "none", response |-> [choices |-> choices, usage |-> RawUsage]]

TransportErrors == {"ServiceUnavailableError", "RateLimitError", "Timeout"}

BackendErrors == {[raises |-> e, response |-> None] : e \in TransportErrors}

TextBackends ==
    BackendErrors \cup {ModelResponse(<<>>)}
    \cup {ModelResponse(<<Choice(c, NoToolCalls)>>) : c \in {None, Str(0, "hello"), Str(0, "{\"location\": \"Tokyo\"}")}}
    \cup {ModelResponse(<<Choice(Str(0, "hello"), NoToolCalls), SecondChoice>>)}

ToolBackends ==
    BackendErrors \cup {ModelResponse(<<>>)}
    \cup {ModelResponse(<<Choice(c, t)>>) :
            c \in {None, Str(0, "hello")},
            t \in {NoToolCalls} \cup {ToolCalls(s) : s \in SeqsUpTo(ToolCallInputs, MaxCalls)}}
    \cup {ModelResponse(<<Choice(None, ToolCalls(<<t>>)), SecondChoice>>) : t \in ToolCallInputs}

ToolMessageInput ==
    LLMToolMessage("call_1", "get_weather", Str(0, "sunny"),
        LLMToolMessageFunctionCall("get_weather", Str(0, "{\"location\": \"Tokyo\"}")), 2)

MessageInputs ==
    {<<LLMUserMessage(<<TextPart, PngPart>>, 1)>>,
     <<LLMSystemMessage(<<TextPart>>, 1), LLMUserMessage(<<TextPart>>, 1),
       ToolMessageInput, LLMAssistantMessage(<<TextPart>>, 2)>>}

\* The arguments of a helper, bound; "none" and None for what it has not.
Request(messages, router, model, tools, tool_choice, response_model) ==
    [messages |-> messages, router |-> router, model |-> model, tools |-> tools,
     tool_choice |-> tool_choice, response_model |-> response_model]

\* LLMModel
LLMModel ==
    {"vertex_ai/gemini-2.0-flash", "vertex_ai/gemini-2.0-flash-lite",
     "vertex_ai/gemini-2.0-pro-exp-02-05", "gemini/gemini-2.0-flash",
     "gemini/gemini-2.0-flash-lite", "gemini/gemini-2.0-pro-exp-02-05"}

\* The routers the helpers are handed: what get_router builds of one alias and
\* of two.
RouterInputs ==
    {LLMRouter(1, model_list_of(models), fallbacks_of(models)) :
        models \in {<<"gemini-2.0-flash">>, <<"claude-3.5-sonnet", "gemini-2.0-flash">>}}

HelperIdle ==
    /\ helper = "none"
    /\ request = Request(<<>>, None, "none", <<>>, "none", "none")
    /\ backend = [raises |-> "Timeout", response |-> None]
    /\ pc = "idle"
    /\ rendered_messages = <<>>
    /\ response = None
    /\ inspected = {}
    /\ chosen_tool = 0
    /\ outcome = Running
    /\ sent = NothingSent

HelperInit ==
    /\ \/ /\ helper \in RouterHelpers
          /\ request \in {Request(m, r, "none", <<>>, "none",
                                  IF helper \in StructuredHelpers THEN "WeatherReport" ELSE "none") :
                            m \in MessageInputs, r \in RouterInputs}
          /\ backend \in TextBackends
       \/ /\ helper \in ToolHelpers
          /\ request \in {Request(m, None, "gemini/gemini-2.0-flash", t, c, "none") :
                            m \in {<<LLMUserMessage(<<TextPart>>, 1), ToolMessageInput>>},
                            t \in SeqsUpTo(ToolInputs, MaxTools),
                            c \in {"auto", "required"}}
          /\ backend \in ToolBackends
    /\ pc = "start"
    /\ rendered_messages = <<>>
    /\ response = None
    /\ inspected = {}
    /\ chosen_tool = 0
    /\ outcome = Running
    /\ sent = NothingSent

HelperNext ==
    \/ helper_complete
    \/ helper_check_choices
    \/ helper_normalize

(***************************************************************************)
(* The blocking and the suspending form of one call                        *)
(***************************************************************************)
Callees == {"LLMRouter.complete", "llm_unstructured", "llm_structured", "llm_tool_call"}

BlockingForm ==
    [c \in Callees |->
        CASE c = "LLMRouter.complete" -> "LLMRouter.complete"
          [] c = "llm_unstructured" -> "llm_unstructured_sync"
          [] c = "llm_structured" -> "llm_structured_sync"
          [] c = "llm_tool_call" -> "llm_tool_call_sync"]

SuspendingForm ==
    [c \in Callees |->
        CASE c = "LLMRouter.complete" -> "LLMRouter.acomplete"
          [] c = "llm_unstructured" -> "llm_unstructured"
          [] c = "llm_structured" -> "llm_structured"
          [] c = "llm_tool_call" -> "llm_tool_call"]

\* A request helper from its call to its end: the arguments are bound, the
\* messages rendered, the completion called, and its result checked and
\* normalized.
helper_call(h, kwargs, b) ==
    LET args == bind(h, kwargs)
    IN  IF ~args.ok THEN [sent |-> NothingSent, outcome |-> RaiseError("TypeError", "")]
        ELSE LET call == completion_call(h, args.value,
                                         render_messages(args.value.messages), b)
             IN  [sent |-> call.sent,
                  outcome |->
                    IF ~call.result.ok THEN completion_except(h, call.result.error)
                    ELSE IF no_choices(h, call.result.value).outcome # Running
                    THEN no_choices(h, call.result.value).outcome
                    ELSE IF h \in ToolHelpers
                    THEN tool_call_result(args.value.tools, args.value.tool_choice,
                                          call.result.value)
                    ELSE text_result(h, args.value, call.result.value)]

\* router.complete(**kwargs) and router.acomplete(**kwargs), from the call to
\* its end.
router_call(f, router, kwargs, b) ==
    LET args == bind(f, kwargs)
    IN  IF ~args.ok THEN [sent |-> NothingSent, outcome |-> RaiseError("TypeError", "")]
        ELSE LET call == LLMRouter_complete(f, router, args.value, b)
             IN  [sent |-> call.sent,
                  outcome |-> IF call.result.ok THEN Return(call.result.value)
                              ELSE RaiseError(call.result.error, "")]

\* One form called with keyword arguments; the helpers that take a router are
\* handed the one get_router returned.
form_call(f, router, kwargs, b) ==
    IF f \in {"LLMRouter.complete", "LLMRouter.acomplete"}
    THEN router_call(f, router, kwargs, b)
    ELSE IF f \in RouterHelpers
    THEN helper_call(f, [p \in DOMAIN kwargs \cup {"router"} |->
                            IF p = "router" THEN router ELSE kwargs[p]], b)
    ELSE helper_call(f, kwargs, b)

NotCalled == [sent |-> NothingSent, outcome |-> Running]

\* The keyword arguments the forms are called with: the parameters without
\* default alone, each optional parameter given, and a parameter left out.
OneUserMessage == <<LLMUserMessage(<<TextPart>>, 1)>>

GetWeather == LLMTool("get_weather", "Get the weather")

FindRestaurants == LLMTool("find_restaurants", "Find restaurants")

FormInputs ==
    <<[callee |-> "LLMRouter.complete",
       given |-> [messages |-> render_messages(OneUserMessage)]],
      [callee |-> "LLMRouter.complete",
       given |-> [messages |-> render_messages(OneUserMessage), max_tokens |-> 100]],
      [callee |-> "LLMRouter.complete",
       given |-> [messages |-> render_messages(OneUserMessage), temperature |-> "0.5"]],
      [callee |-> "LLMRouter.complete",
       given |-> [messages |-> render_messages(OneUserMessage),
                  response_format |-> "WeatherReport"]],
      [callee |-> "LLMRouter.complete", given |-> [temperature |-> "0.5"]],
      [callee |-> "llm_unstructured", given |-> [messages |-> OneUserMessage]],
      [callee |-> "llm_structured",
       given |-> [messages |-> OneUserMessage, response_model |-> "WeatherReport"]],
      [callee |-> "llm_structured", given |-> [messages |-> OneUserMessage]],
      [callee |-> "llm_tool_call",
       given |-> [messages |-> OneUserMessage, model |-> "gemini/gemini-2.0-flash",
                  tools |-> <<GetWeather>>, tool_choice |-> "auto"]],
      [callee |-> "llm_tool_call",
       given |-> [messages |-> OneUserMessage, model |-> "gemini/gemini-2.0-flash",
                  tools |-> <<FindRestaurants, GetWeather>>, tool_choice |-> "required"]],
      [callee |-> "llm_tool_call",
       given |-> [messages |-> OneUserMessage, model |-> "gemini/gemini-2.0-flash",
                  tools |-> <<GetWeather>>]],
      [callee |-> "llm_tool_call",
       given |-> [messages |-> OneUserMessage, tools |-> <<GetWeather>>,
                  tool_choice |-> "auto"]]>>

\* The tuples get_router is called with before a form is: none, one and two
\* aliases.
FormModels ==
    {<<>>, <<"gemini-2.0-flash">>, <<"claude-3.5-sonnet", "gemini-2.0-flash">>}

FormsIdle ==
    /\ callee = "none"
    /\ given = [p \in {} |-> None]
    /\ served = [raises |-> "none", response |-> None]
    /\ blocking = NotCalled
    /\ suspending = NotCalled

FormsInit ==
    /\ \E i \in DOMAIN FormInputs :
          /\ callee = FormInputs[i].callee
          /\ given = FormInputs[i].given
    /\ IF callee = "llm_tool_call" THEN served \in ToolBackends ELSE served \in TextBackends
    /\ blocking = NotCalled
    /\ suspending = NotCalled

\* router = get_router(models=...), once, before the forms that need it.
forms_get_router ==
    /\ returned = None
    /\ \E models \in FormModels : get_router(models)
    /\ UNCHANGED <<conv_vars, structured_vars, tool_vars, caller_vars, load_vars, helper_vars, render_vars, forms_vars>>

HasRouter == callee = "llm_tool_call" \/ returned # None

call_blocking ==
    /\ HasRouter
    /\ blocking = NotCalled
    /\ blocking' = form_call(BlockingForm[callee], returned, given, served)
    /\ UNCHANGED <<conv_vars, structured_vars, tool_vars, caller_vars, load_vars, helper_vars, router_vars, render_vars, callee, given,
                   served, suspending>>

call_suspending ==
    /\ HasRouter
    /\ suspending = NotCalled
    /\ suspending' = form_call(SuspendingForm[callee], returned, given, served)
    /\ UNCHANGED <<conv_vars, structured_vars, tool_vars, caller_vars, load_vars, helper_vars, router_vars, render_vars, callee, given,
                   served, blocking>>

FormsNext ==
    \/ forms_get_router
    \/ call_blocking
    \/ call_suspending

NotRun == [ok |-> FALSE, value |-> None, error |-> "not run"]

(***************************************************************************)
(* StructuredLLMResponse.structured_response (types/response.py)           *)
(***************************************************************************)
\* The target schemas: the fields each requires.
Schemas ==
    [structure \in {"WeatherReport", "Forecast"} |->
        IF structure = "WeatherReport" THEN {"location"} ELSE {"location", "days"}]

\* The keys of the JSON object a text of ObjectAtoms is.
ObjectKeys(atom) == {"location"}

\* structure.model_validate_json(text): the text must be a JSON object that
\* has the fields of the schema.
structure_model_validate_json(structure, text) ==
    IF json_loads(text).ok /\ json_loads(text).type = "dict"
       /\ Schemas[structure] \subseteq ObjectKeys(text.atom)
    THEN Ok([model |-> structure, json |-> text])
    ELSE Raise("ValidationError")

\* The computed field structured_response, computed at each access.
\* A faulty field, which hands the text to the schema without validating it.
StructuredResponseMutantUnchecked(self) == Ok([model |-> self.structure, json |-> self.text])
structured_response(self) == structure_model_validate_json(self.structure, self.text)

\* The texts a structured response is built on: a JSON object, a text that is
\* no JSON, and a JSON string literal.
StructuredTexts == {Str(0, "{\"location\": \"Tokyo\"}"), Str(0, "hello"), Str(1, "sunny")}

StructuredIdle ==
    /\ making = [via |-> "none"]
    /\ structured = Running
    /\ accesses = 0
    /\ accessed = NotRun

\* How the response is made: by its constructor, or by a structured helper
\* called with a router of get_router on a backend.
StructuredInit ==
    /\ \/ making \in {[via |-> "StructuredLLMResponse", text |-> text, structure |-> structure] :
                        text \in StructuredTexts, structure \in DOMAIN Schemas}
       \/ making \in {[via |-> h, response_model |-> structure, router |-> r, backend |-> b] :
                        h \in StructuredHelpers, structure \in DOMAIN Schemas,
                        r \in RouterInputs, b \in TextBackends}
    /\ structured = Running
    /\ accesses = 0
    /\ accessed = NotRun

\* StructuredLLMResponse(text=, structure=, usage=), called directly or at the
\* end of llm_structured and llm_structured_sync.
construct ==
    /\ structured = Running
    /\ structured' =
            IF making.via = "StructuredLLMResponse"
            THEN Return(StructuredLLMResponse(making.text, making.structure,
                                              LLMUsage(RawUsage)))
            ELSE helper_call(making.via,
                             [messages |-> OneUserMessage, router |-> making.router,
                              response_model |-> making.response_model],
                             making.backend).outcome
    /\ UNCHANGED <<conv_vars, tool_vars, caller_vars, load_vars, helper_vars, router_vars, render_vars, forms_vars,
                   making, accesses, accessed>>

\* response.structured_response, read once more.
access ==
    /\ structured.kind = "return"
    /\ accesses < MaxAccesses
    /\ accesses' = accesses + 1
    /\ accessed' = structured_response(structured.response)
    /\ UNCHANGED <<conv_vars, tool_vars, caller_vars, load_vars, helper_vars, router_vars, render_vars, forms_vars,
                   making, structured>>

StructuredNext ==
    \/ construct
    \/ access

(***************************************************************************)
(* LLMTool and its validator validate_function_name (types/request.py)     *)
(* A name is the sequence of its characters; a character outside ASCII is  *)
(* written as its code point: U+00E9 is e with acute accent, U+0663 the    *)
(* Arabic-Indic digit three.                                               *)
(***************************************************************************)
AsciiLetters == {"a", "Z"}

AsciiDigits == {"7"}

Underscore == "_"

Punctuation == {"-", " "}

NonAsciiLetters == {"U+00E9"}

NonAsciiDigits == {"U+0663"}

Characters ==
    AsciiLetters \cup AsciiDigits \cup {Underscore} \cup Punctuation
    \cup NonAsciiLetters \cup NonAsciiDigits

\* value.replace("_", "")
replace_underscores(value) == SelectSeq(value, LAMBDA c : c # Underscore)

\* str.isalnum(): at least one character, and every character a letter or a
\* digit of any script.
isalnum(value) ==
    /\ Len(value) > 0
    /\ \A i \in 1..Len(value) :
            value[i] \in AsciiLetters \cup AsciiDigits \cup NonAsciiLetters \cup NonAsciiDigits

\* LLMTool.validate_function_name
validate_function_name(value) ==
    IF ~isalnum(replace_underscores(value)) THEN Raise("ValueError") ELSE Ok(value)

\* LLMTool(name=, description=, parameters=): the ValueError of the field
\* validator becomes the ValidationError of the constructor.
new_LLMTool(name, description) ==
    IF validate_function_name(name).ok
    THEN Return(LLMTool(validate_function_name(name).value, description))
    ELSE RaiseError("ValidationError", "Function name must be alphanumeric plus underscores")

ToolIdle ==
    /\ given_name = <<>>
    /\ tool_outcome = Running

ToolInit ==
    /\ given_name \in SeqsUpTo(Characters, MaxName)
    /\ tool_outcome = Running

construct_tool ==
    /\ tool_outcome = Running
    /\ tool_outcome' = new_LLMTool(given_name, "Get the weather")
    /\ UNCHANGED <<conv_vars, caller_vars, load_vars, helper_vars, router_vars, render_vars, forms_vars,
                   structured_vars, given_name>>

ToolNext == construct_tool

(***************************************************************************)
(* get_router called from several threads (router.py)                      *)
(* The wrapper of functools.cache looks the key up, calls the function on  *)
(* a miss and then stores the result; no lock is held across the three,    *)
(* and another thread can run between any two of them.                     *)
(***************************************************************************)
Callers == 1..MaxCallers

\* The tuples the threads call get_router with.
CallerTuples ==
    {<<"gemini-2.0-flash">>, <<"gemini-2.0-flash", "claude-3.5-sonnet">>,
     <<"claude-3.5-sonnet", "gemini-2.0-flash">>}

CallersIdle == callers = [t \in {} |-> None]

\* Every thread has called get_router, and none has looked the key up yet.
CallersInit ==
    \E given_models \in [Callers -> CallerTuples] :
        callers = [t \in Callers |->
                    [pc |-> "called", models |-> given_models[t], router |-> None]]

\* The wrapper looks the key up in the cache: a hit is returned at once.
cache_lookup(t) ==
    /\ callers[t].pc = "called"
    /\ callers' = [callers EXCEPT ![t] =
            IF callers[t].models \in DOMAIN router_cache
            THEN [@ EXCEPT !.pc = "returned", !.router = router_cache[callers[t].models]]
            ELSE [@ EXCEPT !.pc = "missed"]]
    /\ UNCHANGED <<conv_vars, load_vars, helper_vars, router_vars, render_vars, forms_vars,
                   structured_vars, tool_vars>>

\* After a miss the body of get_router runs: a router is constructed.
cache_miss_call(t) ==
    /\ callers[t].pc = "missed"
    /\ callers' = [callers EXCEPT ![t] =
            [@ EXCEPT !.pc = "built",
                      !.router = LLMRouter(constructed + 1, model_list_of(callers[t].models),
                                           fallbacks_of(callers[t].models))]]
    /\ constructed' = constructed + 1
    /\ UNCHANGED <<conv_vars, load_vars, helper_vars, render_vars, forms_vars, structured_vars,
                   tool_vars, router_cache, returned, called>>

\* The wrapper stores the result under the key, over what is there, and
\* returns it.
cache_store(t) ==
    /\ callers[t].pc = "built"
    /\ router_cache' = [k \in DOMAIN router_cache \cup {callers[t].models} |->
                            IF k = callers[t].models THEN callers[t].router
                            ELSE router_cache[k]]
    /\ callers' = [callers EXCEPT ![t] = [@ EXCEPT !.pc = "returned"]]
    /\ UNCHANGED <<conv_vars, load_vars, helper_vars, render_vars, forms_vars, structured_vars,
                   tool_vars, constructed, returned, called>>

CallersNext ==
    \E t \in Callers :
        \/ cache_lookup(t)
        \/ cache_miss_call(t)
        \/ cache_store(t)

\* The texts load is called on: texts that are no JSON, JSON values that are no
\* object, and objects holding any subset of the four keys, whose entries are
\* dumps of messages, texts that are no JSON, and messages with fields missing
\* or refused by the variant.
NotJson == [json |-> FALSE]

SystemEntries ==
    {JsonNull, NotJson, model_dump_json(LLMSystemMessage(<<TextPart>>, 1)),
     [json |-> TRUE, created_at |-> isoformat(1)]}

UserEntries ==
    {<<>>, <<model_dump_json(LLMUserMessage(<<TextPart, PngPart>>, 1))>>,
     <<model_dump_json(LLMUserMessage(<<TextPart>>, 2)), NotJson>>}

AssistantEntries ==
    {<<>>, <<model_dump_json(LLMAssistantMessage(<<TextPart>>, 2))>>,
     <<model_dump_json(LLMAssistantMessage(<<PngPart>>, 2))>>}

ToolEntries ==
    {<<>>,
     <<model_dump_json(LLMToolMessage("call_1", "get_weather", Str(1, "sunny"),
            LLMToolMessageFunctionCall("get_weather", Str(1, "sunny")), 1))>>,
     <<model_dump_json(LLMToolMessage("call_1", "get_weather", Str(0, "sunny"),
            LLMToolMessageFunctionCall("get_weather", Str(0, "{\"location\": \"Tokyo\"}")), 1))>>,
     <<[json |-> TRUE, parts |-> <<TextPart>>, created_at |-> isoformat(1),
        tool_call_id |-> "call_1", name |-> "get_weather", response |-> Str(1, "sunny"),
        function_call |-> LLMToolMessageFunctionCall("get_weather", Str(1, "sunny"))]>>}

DumpKeys == {"system", "user", "assistant", "tool"}

DumpInputs ==
    {[kind |-> k] : k \in {"text", "array", "string", "number", "null"}}
    \cup {[kind |-> "object",
           members |-> [k \in K |->
              CASE k = "system" -> s [] k = "user" -> u
                [] k = "assistant" -> a [] k = "tool" -> t]] :
          K \in SUBSET DumpKeys, s \in SystemEntries, u \in UserEntries,
          a \in AssistantEntries, t \in ToolEntries}

\* A call of Conversation.load(dump=load_dump).
load_call ==
    /\ load_result = NotRun
    /\ load_result' = load(load_dump)
    /\ UNCHANGED <<conv_vars, forms_vars, structured_vars, tool_vars, caller_vars, load_dump, helper_vars, router_vars, render_vars>>

LoadIdle ==
    /\ load_dump = [kind |-> "text"]
    /\ load_result = NotRun

ConvIdle ==
    /\ user_messages = <<>>
    /\ assistant_messages = <<>>
    /\ tool_messages = <<>>
    /\ system_ref = NoRef
    /\ held = SystemMessages
    /\ frames = <<>>
    /\ exc = "none"
    /\ unwound = NoFrame

LoadInit ==
    /\ load_dump \in DumpInputs
    /\ load_result = NotRun

LoadNext == load_call

ConvInit ==
    /\ user_messages = <<>>
    /\ assistant_messages = <<>>
    /\ tool_messages = <<>>
    /\ system_ref = NoRef
    /\ held = SystemMessages
    /\ frames = <<>>
    /\ exc = "none"
    /\ unwound = NoFrame

\* with_temporary_system_message scopes, alone and nested, around work that
\* sets the System message, raises, and catches what an inner scope let out.
TempNext ==
    \/ \E m \in SystemRefs : set_system_message(m)
    \/ \E p \in TemporaryParts : temp_enter(p)
    \/ temp_exit
    \/ body_raise("ValueError")
    \/ temp_except
    \/ body_except
    \/ caller_handles

ConvNext ==
    \/ \E m \in UserMessages : add_user_message(m)
    \/ \E p \in AssistantPartInputs, t \in Times : add_assistant_message(p, t)
    \/ \E r \in ResponseInputs, t \in Times : add_tool_message(r, t)
    \/ \E m \in SystemRefs : set_system_message(m)
    \/ session_enter
    \/ session_exit
    \/ \E e \in BodyErrors : body_raise(e)
    \/ session_except
    \/ caller_handles

Range(s) == {s[i] : i \in 1..Len(s)}

Count(m, s) == Cardinality({i \in 1..Len(s) : s[i] = m})

Added == user_messages \o assistant_messages \o tool_messages

C2_SessionRollsBack ==
    (unwound # NoFrame /\ IsException(unwound.raised)) =>
        /\ user_messages = unwound.entry_user
        /\ assistant_messages = unwound.entry_assistant
        /\ tool_messages = unwound.entry_tool
        /\ exc = unwound.raised

\* C2 witness: the enclosed work added a message to each collection of a
\* conversation that was not empty, raised an Exception, and the scope is left.
C2_Witness ==
    /\ unwound # NoFrame
    /\ IsException(unwound.raised)
    /\ unwound.added[1] + unwound.added[2] + unwound.added[3] >= 2
    /\ unwound.num_user_messages + unwound.num_assistant_messages
            + unwound.num_tool_messages > 0
    /\ exc = unwound.raised

\* What the claim compares of two rendered messages: role, parts and the tool
\* identifiers.
Content(m) ==
    IF m.role = "tool"
    THEN <<m.role, m.parts, m.tool_call_id, m.name, m.response, m.function_call>>
    ELSE <<m.role, m.parts>>

\* C7 (as claimed): load(dump()) succeeds and renders the same messages, in the
\* same order, with the same role, parts and tool identifiers.
C7_DumpLoadRoundTrip ==
    LET r == load(dump(Self))
    IN  /\ r.ok
        /\ Len(render(r.value)) = Len(render(Self))
        /\ \A i \in 1..Len(render(Self)) :
                Content(render(r.value)[i]) = Content(render(Self)[i])

\* C8 (as claimed): load on a text that does not decode or validate raises the
\* AIError "Invalid conversation dump", and nothing else.
C8_LoadFailsWithInvalidDump ==
    (load_result # NotRun /\ ~load_result.ok) => load_result.error = InvalidDump

(***************************************************************************)
(* The request helpers                                                     *)
(***************************************************************************)
Answered == backend.raises = "none"

HasChoice == Answered /\ Len(backend.response.choices) >= 1

\* The tool calls of the first choice of the raw result.
Calls ==
    LET t == backend.response.choices[1].message.tool_calls
    IN  IF t = NoToolCalls THEN <<>> ELSE t.items

FirstContent == backend.response.choices[1].message.content

Matching(name) == {i \in 1..Len(request.tools) : request.tools[i].name = name}

\* The first returned call resolves: a supplied tool has its name and its
\* arguments are the text of a JSON object.
Resolves(call) ==
    /\ Matching(call.function.name) # {}
    /\ json_loads(call.function.arguments).ok
    /\ json_loads(call.function.arguments).type = "dict"

Resolved(call) ==
    [tool_name |-> call.function.name, arguments |-> json_loads(call.function.arguments).value]

Returned == outcome.kind = "return"

Raised(type, message) ==
    outcome.kind = "raise" /\ outcome.error = [type |-> type, message |-> message]

\* C3 (as claimed): under tool_choice "auto", a first choice without tool calls
\* gives ToolResponse{tool_call=null, text=content}, a first call that resolves
\* gives a ToolResponse with that call and text null, and no other response
\* variant is returned.  The first case is stated for a first choice that has
\* content: a ToolResponse with neither tool call nor text does not exist.
C3_AutoReturnsToolResponse ==
    (helper \in ToolHelpers /\ pc = "done" /\ request.tool_choice = "auto" /\ HasChoice) =>
        /\ (Len(Calls) = 0 /\ FirstContent # None) =>
              /\ Returned
              /\ outcome.response.variant = "ToolLLMResponse"
              /\ outcome.response.tool_call = None
              /\ outcome.response.text = FirstContent
        /\ (Len(Calls) >= 1 /\ Resolves(Calls[1])) =>
              /\ Returned
              /\ outcome.response.variant = "ToolLLMResponse"
              /\ outcome.response.tool_call = Resolved(Calls[1])
              /\ outcome.response.text = None
        /\ Returned => outcome.response.variant = "ToolLLMResponse"

\* C4: under tool_choice "required", a first choice without tool calls makes
\* the helper fail with "No tool call found in response" and return nothing, a
\* first call that resolves gives a StrictToolResponse holding it, and no
\* response without a tool call is returned.
C4_RequiredNeverReturnsWithoutToolCall ==
    (helper \in ToolHelpers /\ pc = "done" /\ request.tool_choice = "required" /\ HasChoice) =>
        /\ Len(Calls) = 0 => Raised("AIError", "No tool call found in response")
        /\ (Len(Calls) >= 1 /\ Resolves(Calls[1])) =>
              /\ Returned
              /\ outcome.response.variant = "StrictToolLLMResponse"
              /\ outcome.response.tool_call = Resolved(Calls[1])
        /\ Returned => outcome.response.tool_call # None

\* C4 witness: under "required" the first of two calls resolved, the second
\* would not have, and a StrictToolResponse is returned.
C4_Witness ==
    /\ helper \in ToolHelpers /\ pc = "done" /\ request.tool_choice = "required" /\ HasChoice
    /\ Len(Calls) = 2 /\ Resolves(Calls[1]) /\ ~Resolves(Calls[2])
    /\ Returned
    /\ outcome.response.variant = "StrictToolLLMResponse"

\* C4, the other case reached: under "required" a first choice with content
\* and no tool call made the helper fail.
C4_WitnessNoToolCall ==
    /\ helper \in ToolHelpers /\ pc = "done" /\ request.tool_choice = "required" /\ HasChoice
    /\ Len(Calls) = 0 /\ FirstContent # None
    /\ Raised("AIError", "No tool call found in response")

\* C5: with at least one returned tool call, only the first is resolved: the
\* tool chosen is the first of the supplied list whose name is the call's
\* function name, the ToolCall returned is made of the first call, and with no
\* such tool the helper fails with "No tool call found in response: ..." and
\* returns nothing.
C5_FirstCallFirstMatchingTool ==
    (helper \in ToolHelpers /\ pc = "done" /\ HasChoice /\ Len(Calls) >= 1) =>
        LET matching == Matching(Calls[1].function.name)
        IN  /\ matching = {} =>
                Raised("AIError", "No tool call found in response: {tool_calls}")
            /\ matching # {} =>
                /\ chosen_tool \in matching
                /\ \A i \in matching : chosen_tool <= i
                /\ ~Raised("AIError", "No tool call found in response: {tool_calls}")
                /\ Returned => outcome.response.tool_call = Resolved(Calls[1])

\* C5 witness: two supplied tools share the name of the first call, the first
\* of them is chosen, and a second call with another name is not looked at.
C5_Witness ==
    /\ helper \in ToolHelpers /\ pc = "done" /\ HasChoice /\ Len(Calls) = 2
    /\ Matching(Calls[1].function.name) = {1, 2}
    /\ request.tools[1] # request.tools[2]
    /\ Calls[2].function.name # Calls[1].function.name
    /\ chosen_tool = 1
    /\ Returned
    /\ outcome.response.tool_call = Resolved(Calls[1])

\* C5 witness, second case: no supplied tool has the name of the first call.
C5_WitnessMismatch ==
    /\ helper \in ToolHelpers /\ pc = "done" /\ HasChoice /\ Len(Calls) >= 1
    /\ Len(request.tools) >= 1
    /\ Matching(Calls[1].function.name) = {}
    /\ Raised("AIError", "No tool call found in response: {tool_calls}")

\* A with_temporary_system_message scope is entered, and left, in this step.
TempEntered == Len(frames') = Len(frames) + 1 /\ Head(frames').kind = "temporary"

TempLeft == frames # <<>> /\ Head(frames).kind = "temporary" /\ frames' = Tail(frames)

\* The part the scope f appended is where it was appended, in the message it
\* was appended to, h being the System message objects.
HoldsPart(f, h) ==
    /\ Len(h[f.entry_ref].parts) > f.entry_len
    /\ h[f.entry_ref].parts[f.entry_len + 1] = f.message_part

\* C12 (as claimed): entering the scope appends the part to the parts of the
\* System message; when the enclosed work ended normally, the appended part is
\* no longer in that message once the scope is left; when the enclosed work
\* raised, once the scope is left the appended part is the last part of the
\* System message and the exception is still in flight.
C12_TemporaryPartRemovedUnlessRaised ==
    [][/\ TempEntered =>
            /\ system_ref' = system_ref
            /\ system_message'.parts =
                    Append(system_message.parts, Head(frames').message_part)
       /\ (TempLeft /\ exc = "none") => ~HoldsPart(Head(frames), held')
       /\ (TempLeft /\ exc # "none") =>
            /\ system_ref' = Head(frames).entry_ref
            /\ Len(system_message'.parts) = Head(frames).entry_len + 1
            /\ HoldsPart(Head(frames), held')
            /\ exc' = exc]_vars

\* C13: render_call_and_response on a Tool message returns two wire messages,
\* an assistant message whose tool_calls holds one function entry and then a
\* tool message, and the first message, its tool_calls entry and the second
\* message bear the tool_call_id of the Tool message; render() on the Tool
\* message raises the AIError "Tool messages can not be rendered directly"
\* and returns nothing.
C13_ToolMessageRendersAsPair ==
    /\ call_and_response.kind # "running" =>
            /\ call_and_response.kind = "return"
            /\ LET pair == call_and_response.response
               IN  /\ Len(pair) = 2
                   /\ pair[1].role = "assistant"
                   /\ Len(pair[1].tool_calls) = 1
                   /\ pair[1].tool_calls[1].type = "function"
                   /\ pair[2].role = "tool"
                   /\ pair[1].tool_call_id = tool_message.tool_call_id
                   /\ pair[1].tool_calls[1].id = tool_message.tool_call_id
                   /\ pair[2].tool_call_id = tool_message.tool_call_id
    /\ render_outcome.kind # "running" =>
            /\ render_outcome.kind = "raise"
            /\ render_outcome.error = [type |-> "AIError", message |-> IllegalRender]

\* C13 witness: both methods have been called on the Tool message call_2,
\* whose function call bears another name than the message: the pair came
\* back and render() raised.
C13_Witness ==
    /\ tool_message # None
    /\ tool_message.tool_call_id = "call_2"
    /\ tool_message.name # tool_message.function_call.name
    /\ call_and_response.kind = "return"
    /\ Len(call_and_response.response) = 2
    /\ render_outcome.kind = "raise"

\* The first returned call names a supplied tool.
FirstCallMatches ==
    /\ helper \in ToolHelpers /\ pc = "done" /\ HasChoice
    /\ Len(Calls) >= 1
    /\ Matching(Calls[1].function.name) # {}

FirstMatching == CHOOSE i \in Matching(Calls[1].function.name) :
                    \A j \in Matching(Calls[1].function.name) : i <= j

FirstArguments == json_loads(Calls[1].function.arguments)

\* C11 (as claimed): when the first returned call names a supplied tool,
\* arguments that are no JSON make the helper fail with "Invalid tool call
\* arguments", and any other arguments make it return a ToolCall whose
\* tool_name is the matched tool's name and whose arguments are the parsed
\* JSON value.
C11_ArgumentsParsedOrFail ==
    FirstCallMatches =>
        IF ~FirstArguments.ok
        THEN Raised("AIError", "Invalid tool call arguments: {arguments}")
        ELSE /\ Returned
             /\ outcome.response.tool_call.tool_name = request.tools[FirstMatching].name
             /\ outcome.response.tool_call.arguments = FirstArguments.value

\* C11 (amended): when the first returned call names a supplied tool,
\* arguments that are no JSON make the helper fail with "Invalid tool call
\* arguments"; arguments that are the JSON of an object make it return a
\* ToolCall whose tool_name is the matched tool's name and whose arguments are
\* the parsed object; arguments that are JSON of any other value make it fail
\* with a validation error and return nothing.
C11_ObjectArgumentsParsedOrFail ==
    FirstCallMatches =>
        /\ ~FirstArguments.ok =>
                Raised("AIError", "Invalid tool call arguments: {arguments}")
        /\ (FirstArguments.ok /\ FirstArguments.type = "dict") =>
                /\ Returned
                /\ outcome.response.tool_call.tool_name = request.tools[FirstMatching].name
                /\ outcome.response.tool_call.arguments = FirstArguments.value
        /\ (FirstArguments.ok /\ FirstArguments.type # "dict") =>
                Raised("ValidationError", "")

\* C11 witness: the first call names the second supplied tool, its arguments
\* are the JSON of an object, and the ToolCall returned holds that tool's name
\* and the parsed object.
C11_Witness ==
    /\ FirstCallMatches
    /\ FirstMatching = 2
    /\ FirstArguments.ok /\ FirstArguments.type = "dict"
    /\ Returned
    /\ outcome.response.tool_call =
            [tool_name |-> request.tools[2].name, arguments |-> FirstArguments.value]

\* C11, the failing cases reached: arguments that are no JSON, and arguments
\* that are a JSON string literal.
C11_WitnessNoJson ==
    /\ FirstCallMatches
    /\ ~FirstArguments.ok
    /\ Raised("AIError", "Invalid tool call arguments: {arguments}")

C11_WitnessNoObject ==
    /\ FirstCallMatches
    /\ FirstArguments.ok /\ FirstArguments.type = "str"
    /\ Raised("ValidationError", "")

\* C9 (as claimed): in every helper a service-unavailable error of the
\* transport reaches the caller as ModelUnavailable and a rate-limit error as
\* RateLimitExceeded.
C9_TransportErrorsRemapped ==
    (helper \in Helpers /\ pc = "done") =>
        /\ backend.raises = "ServiceUnavailableError" => Raised("ModelUnavailableError", "")
        /\ backend.raises = "RateLimitError" => Raised("RateLimitExceededError", "")

\* The NoResponse kind: NoResponseError, which unstructured.py and
\* structured.py raise, and the AIError "No response from LLM" of tools.py.
IsNoResponse(e) ==
    \/ e.type = "NoResponseError"
    \/ e = [type |-> "AIError", message |-> "No response from LLM"]

\* C10: a raw result with zero choices makes every helper fail with NoResponse,
\* with no response returned and with neither the tool calls, the content nor
\* the usage read, whatever the helper and the tool_choice.
C10_NoChoicesFailsFirst ==
    (helper \in Helpers /\ Answered /\ Len(backend.response.choices) = 0) =>
        /\ inspected \cap {"usage", "tool_calls", "content"} = {}
        /\ pc = "done" => (outcome.kind = "raise" /\ IsNoResponse(outcome.error))
        /\ pc \in {"start", "received", "done"}

\* C10 witness: the tool helper under "required" has failed on a result
\* without choices.
C10_Witness ==
    /\ helper \in ToolHelpers /\ request.tool_choice = "required"
    /\ Answered /\ Len(backend.response.choices) = 0
    /\ pc = "done" /\ inspected = {"choices"}
    /\ outcome.kind = "raise" /\ IsNoResponse(outcome.error)

Distinct(models) == \A i, j \in 1..Len(models) : i # j => models[i] # models[j]

Without(models, i) == SubSeq(models, 1, i - 1) \o SubSeq(models, i + 1, Len(models))

\* C6: for a tuple of distinct aliases the router holds, as handed to the
\* underlying router, one fallback entry per alias, in order, whose list is the
\* tuple without that alias.
C6_FallbackTable ==
    \A models \in DOMAIN router_cache :
        Distinct(models) =>
            LET fallbacks == router_cache[models].fallbacks
            IN  /\ Len(fallbacks) = Len(models)
                /\ \A i \in 1..Len(models) :
                        /\ fallbacks[i].key = models[i]
                        /\ fallbacks[i].value = Without(models, i)

\* C6 witness: the router of three distinct aliases has been built, with the
\* table A:[B,C], B:[A,C], C:[A,B].
C6_Witness ==
    LET A == "gemini-2.0-flash"
        B == "gemini-2.0-flash-lite"
        C == "claude-3.5-sonnet"
    IN  /\ <<A, B, C>> \in DOMAIN router_cache
        /\ returned = router_cache[<<A, B, C>>]
        /\ returned.fallbacks =
                <<[key |-> A, value |-> <<B, C>>], [key |-> B, value |-> <<A, C>>],
                  [key |-> C, value |-> <<A, B>>]>>

ThroughRouter == {"LLMRouter.complete", "LLMRouter.acomplete"}

\* C15: every completion call a request helper has made went through
\* complete or acomplete of the router it was handed, with the model that the
\* router's primary alias maps to.
C15_HelpersSendThroughRouter ==
    sent.via # "none" =>
        /\ sent.via \in ThroughRouter
        /\ sent.router = request.router
        /\ sent.kwargs.model = MODEL_ALIAS_MAPPING[primary_model(sent.router).value]

BothCalled == blocking # NotCalled /\ suspending # NotCalled

\* C14: the blocking and the suspending form of LLMRouter.complete and of each
\* helper have the same parameters with the same defaults, and, once both have
\* been called with the same keyword arguments on the same backend result,
\* they have the same outcome: the same response, or the same error.
C14_FormsAgree ==
    /\ callee \in Callees =>
            Parameters(BlockingForm[callee]) = Parameters(SuspendingForm[callee])
    /\ BothCalled =>
            /\ blocking.outcome.kind = suspending.outcome.kind
            /\ blocking.outcome = suspending.outcome

\* The model a call handed to the underlying router is one of the model names
\* of that router and a key of its fallback table.
Registered(call) ==
    call.sent.via \in ThroughRouter =>
        /\ \E i \in DOMAIN call.sent.router.model_list :
                call.sent.router.model_list[i].model_name = call.sent.kwargs.model
        /\ \E i \in DOMAIN call.sent.router.fallbacks :
                call.sent.router.fallbacks[i].key = call.sent.kwargs.model

\* C20: every completion that complete or acomplete of a router built by
\* get_router hands to the underlying router names, as its model, a model
\* name of the router's model list and a key of its fallback table.
C20_SentModelIsRegistered == Registered(blocking) /\ Registered(suspending)

\* C16: in a series of get_router calls made one after the other, a call with
\* a tuple called before returns the router built for it and builds nothing,
\* a router is never replaced in the cache, as many routers were built as
\* there are tuples called, and two different tuples have two different
\* routers.
C16_OneRouterPerTuple ==
    /\ [](/\ constructed = Cardinality(DOMAIN router_cache)
          /\ \A k1, k2 \in DOMAIN router_cache :
                k1 # k2 => router_cache[k1].id # router_cache[k2].id
          /\ called # NotYet => called \in DOMAIN router_cache /\ returned = router_cache[called])
    /\ [][\A k \in DOMAIN router_cache :
            /\ k \in DOMAIN router_cache' /\ router_cache'[k] = router_cache[k]
            /\ called' = k => returned' = router_cache[k] /\ constructed' = constructed]_vars

\* C16 witness: the tuple called first is called again after a tuple of the
\* same aliases in the other order, and its first router is returned; two
\* routers were built.
C16_Witness ==
    LET A == "gemini-2.0-flash"
        B == "claude-3.5-sonnet"
    IN  /\ DOMAIN router_cache = {<<A, B>>, <<B, A>>}
        /\ called = <<A, B>> /\ returned = router_cache[<<A, B>>]
        /\ returned.id = 1 /\ router_cache[<<B, A>>].id = 2
        /\ constructed = 2

\* The text is a JSON object with the fields of the schema.
ValidFor(structure, text) ==
    /\ text.enc = 0 /\ text.atom \in ObjectAtoms
    /\ (structure = "WeatherReport" \/ "days" \in ObjectKeys(text.atom))

\* The backend answered with at least one choice, and every choice has a text.
AnsweredWithText(b) ==
    /\ b.raises = "none" /\ Len(b.response.choices) > 0
    /\ \A i \in 1..Len(b.response.choices) : b.response.choices[i].message.content # None

\* C17: making a structured response, directly or at the end of a structured
\* helper whose backend answered with a text, succeeds whatever the text is; every read of
\* structured_response of a response whose text is not valid for the schema
\* fails with a validation error, and every read of one whose text is valid
\* returns the value parsed from the text.
C17_ValidatedAtAccess ==
    /\ (structured # Running /\ making.via = "StructuredLLMResponse") =>
            /\ structured.kind = "return"
            /\ structured.response.text = making.text
            /\ structured.response.structure = making.structure
    /\ (structured # Running /\ making.via \in StructuredHelpers
            /\ AnsweredWithText(making.backend)) =>
            /\ structured.kind = "return"
            /\ structured.response.text = making.backend.response.choices[1].message.content
            /\ structured.response.structure = making.response_model
    /\ accesses > 0 =>
            IF ValidFor(structured.response.structure, structured.response.text)
            THEN /\ accessed.ok
                 /\ accessed.value = [model |-> structured.response.structure,
                                      json |-> structured.response.text]
            ELSE ~accessed.ok /\ accessed.error = "ValidationError"

\* C17 witness: llm_structured returned a response whose text is no JSON, and
\* its structured_response was read twice and failed.
C17_Witness ==
    /\ making.via = "llm_structured"
    /\ structured.kind = "return" /\ structured.response.text = Str(0, "hello")
    /\ accesses = 2
    /\ ~accessed.ok /\ accessed.error = "ValidationError"

\* C17 witness: a response made directly on a valid text was read twice and
\* gave the parsed value.
C17_WitnessValid ==
    /\ making.via = "StructuredLLMResponse"
    /\ structured.kind = "return"
    /\ ValidFor(structured.response.structure, structured.response.text)
    /\ accesses = 2
    /\ accessed.ok

AsciiWord == AsciiLetters \cup AsciiDigits \cup {Underscore}

\* C18: constructing a Tool whose name has a character outside [A-Za-z0-9_]
\* fails with a validation error.
C18_NameOutsideAsciiWordFails ==
    (tool_outcome # Running /\ \E i \in 1..Len(given_name) : given_name[i] \notin AsciiWord) =>
        tool_outcome.kind = "raise" /\ tool_outcome.error.type = "ValidationError"

AllReturned == \A t \in DOMAIN callers : callers[t].pc = "returned"

\* C19: of the threads that called get_router with the same tuple while no
\* call for it had completed, all that have returned hold the same router,
\* and once all have returned one router has been constructed per tuple.
C19_OneRouterForConcurrentCallers ==
    /\ \A t1, t2 \in DOMAIN callers :
            (/\ callers[t1].pc = "returned" /\ callers[t2].pc = "returned"
             /\ callers[t1].models = callers[t2].models) =>
                callers[t1].router = callers[t2].router
    /\ AllReturned =>
            constructed = Cardinality({callers[t].models : t \in DOMAIN callers})

\* C21: when a with_temporary_system_message scope whose enclosed work ended
\* normally is left, the exit raises nothing, and the System message objects
\* are as before the exit except that the part the scope appended is gone from
\* the message it was appended to: no other part of any message is removed.
C21_ExitRemovesOnlyItsPart ==
    [][(TempLeft /\ exc = "none") =>
            /\ exc' = "none"
            /\ HoldsPart(Head(frames), held)
            /\ held' = [held EXCEPT ![Head(frames).entry_ref].parts =
                            Without(@, Head(frames).entry_len + 1)]]_vars

\* The Conversation and the scopes opened on it.
Init ==
    ConvInit /\ LoadIdle /\ HelperIdle /\ RouterInit /\ RenderIdle /\ FormsIdle /\ StructuredIdle /\ ToolIdle /\ CallersIdle

Next == ConvNext

Spec == Init /\ [][Next]_vars

\* The Conversation and the with_temporary_system_message scopes opened on it.
InitTemp == ConvInit /\ LoadIdle /\ HelperIdle /\ RouterInit /\ RenderIdle /\ FormsIdle /\ StructuredIdle /\ ToolIdle /\ CallersIdle

NextTemp == TempNext

SpecTemp == InitTemp /\ [][NextTemp]_vars

\* Conversation.load on every text of DumpInputs.
InitLoad == ConvIdle /\ LoadInit /\ HelperIdle /\ RouterInit /\ RenderIdle /\ FormsIdle /\ StructuredIdle /\ ToolIdle /\ CallersIdle

NextLoad == LoadNext

SpecLoad == InitLoad /\ [][NextLoad]_vars

\* One call of a request helper, for every helper, request and backend.
InitHelper == ConvIdle /\ LoadIdle /\ HelperInit /\ RouterInit /\ RenderIdle /\ FormsIdle /\ StructuredIdle /\ ToolIdle /\ CallersIdle

NextHelper == HelperNext

SpecHelper == InitHelper /\ [][NextHelper]_vars

\* The two render methods called on a Tool message.
InitRender == ConvIdle /\ LoadIdle /\ HelperIdle /\ RouterInit /\ RenderInit /\ FormsIdle /\ StructuredIdle /\ ToolIdle /\ CallersIdle

NextRender == RenderNext

SpecRender == InitRender /\ [][NextRender]_vars

\* Calls of get_router, one after the other.
InitRouter == ConvIdle /\ LoadIdle /\ HelperIdle /\ RouterInit /\ RenderIdle /\ FormsIdle /\ StructuredIdle /\ ToolIdle /\ CallersIdle

NextRouter == RouterNext

SpecRouter == InitRouter /\ [][NextRouter]_vars

\* Both forms called once with the same keyword arguments, on the same backend
\* result, with a router of get_router.
InitForms ==
    ConvIdle /\ LoadIdle /\ HelperIdle /\ RouterInit /\ RenderIdle /\ FormsInit /\ StructuredIdle /\ ToolIdle /\ CallersIdle

NextForms == FormsNext

SpecForms == InitForms /\ [][NextForms]_vars

\* One structured response, made and then read.
InitStructured ==
    ConvIdle /\ LoadIdle /\ HelperIdle /\ RouterInit /\ RenderIdle /\ FormsIdle /\ StructuredInit /\ ToolIdle /\ CallersIdle

NextStructured == StructuredNext

SpecStructured == InitStructured /\ [][NextStructured]_vars

\* One Tool constructed, for every name of up to MaxName characters.
InitTool ==
    ConvIdle /\ LoadIdle /\ HelperIdle /\ RouterInit /\ RenderIdle /\ FormsIdle /\ StructuredIdle /\ ToolInit /\ CallersIdle

NextTool == ToolNext

SpecTool == InitTool /\ [][NextTool]_vars

\* get_router called once by each of MaxCallers threads, all calls under way
\* at once.
InitCallers ==
    ConvIdle /\ LoadIdle /\ HelperIdle /\ RouterInit /\ RenderIdle /\ FormsIdle /\ StructuredIdle /\ ToolIdle /\ CallersInit

NextCallers == CallersNext

SpecCallers == InitCallers /\ [][NextCallers]_vars

====
